---- MODULE Spec2Model ----
(***************************************************************************)
(* A model of the smart task analyzer: the TaskScorer of                   *)
(* backend/tasks/scoring.py (component scores, weighted priority, batch    *)
(* scoring, depth-first cycle detection) and the two request entry points  *)
(* of backend/tasks/views.py.                                              *)
(*                                                                         *)
(* Numbers.  Python floats are modelled in fixed point:                    *)
(*   - a component score is an integer count of 1/SCALE (1e-5) points;     *)
(*   - a weight is an integer count of hundredths (0.35 -> 35);            *)
(*   - the unrounded priority score is therefore a count of 1e-7 points;   *)
(*   - a value rounded by round(x, 2) is a count of hundredths;            *)
(*   - estimated_hours is a count of thousandths of an hour;               *)
(*   - a due date is a day number, and days_until_due = due_date - Today.  *)
(* The linear formulas are exact in this representation; the irrational    *)
(* ones (x ** 1.8, x ** 1.5, log) are truncated to the unit.               *)
(***************************************************************************)
EXTENDS Integers, Sequences, FiniteSets, TLC

VARIABLES
    tasks,      \* the caller's task list (validated_tasks of a request)
    arg,        \* the scalar arguments of the pure function under study
    scorer,     \* the TaskScorer: [strategy, weights], or NoScorer
    dfs,        \* the running detect_circular_dependencies call, or DfsIdle
    result,     \* the value the last operation returned
    pc,         \* the position of the caller
    calls,      \* the scorer operations the caller has invoked, in order
    heap        \* the objects (lists and dicts) of the caller and of the last
                \* call, where object identity is studied; else empty

vars == <<tasks, arg, scorer, dfs, result, pc, calls, heap>>

----------------------------------------------------------------------------
(* Generic helpers *)

Range(s) == {s[i] : i \in 1..Len(s)}

Min(a, b) == IF a <= b THEN a ELSE b

Max(a, b) == IF a >= b THEN a ELSE b

\* task.get('task_id') is None
NoId == -1

\* date.today(): the day number every due date is measured from
Today == 0

----------------------------------------------------------------------------
(* Bounds of the model *)

\* longest task list given to the cycle detector
MaxTasks == 3

\* longest task list given to score_tasks and get_top_suggestions
MaxBatch == 3

\* largest limit given to get_top_suggestions
MaxLimit == 2

\* longest task list of a request to the entry points
MaxRequest == 2

\* longest task list of the fan-out study: one task and the tasks it blocks
MaxFanBatch == 640

\* the most days overdue of a due date given to calculate_urgency_score
MaxOverdue == 6

----------------------------------------------------------------------------
(* detect_circular_dependencies: the adjacency list *)

RECURSIVE GraphKeys(_, _)
\* the keys of graph after the first n tasks, in dict insertion order
GraphKeys(ts, n) ==
    IF n = 0 THEN <<>>
    ELSE LET ks == GraphKeys(ts, n - 1)
             id == ts[n].task_id
         IN  IF id = NoId \/ id \in Range(ks) THEN ks ELSE Append(ks, id)

\* graph[task_id] = task.get('dependencies', []): a later task with the same
\* id overwrites the entry of an earlier one
BuildGraph(ts) ==
    [id \in Range(GraphKeys(ts, Len(ts))) |->
        LET last == CHOOSE i \in 1..Len(ts) :
                        /\ ts[i].task_id = id
                        /\ \A j \in (i + 1)..Len(ts) : ts[j].task_id # id
        IN  ts[last].dependencies]

\* path.index(x): the first position of x in path, 0 when x is not in it
\* (Python raises ValueError)
PathIndex(path, x) ==
    IF x \in Range(path)
    THEN CHOOSE i \in 1..Len(path) : path[i] = x /\ \A j \in 1..(i - 1) : path[j] # x
    ELSE 0

\* path[cycle_start:] + [neighbor]
MakeCycle(path, neighbor) ==
    Append(SubSeq(path, PathIndex(path, neighbor), Len(path)), neighbor)

(* The state of one call: the locals graph, task_ids, cycles, visited,      *)
(* rec_stack, the position k of the outer loop over graph, and the stack of  *)
(* dfs frames (node, this frame's own path list, index i of the next         *)
(* neighbor).  entered lists the nodes dfs was called on, in call order;     *)
(* err records an uncaught ValueError of path.index.                         *)
DfsIdle == [state |-> "idle"]

DfsStart(ts) ==
    [state     |-> "running",
     graph     |-> BuildGraph(ts),
     keys      |-> GraphKeys(ts, Len(ts)),
     task_ids  |-> Range(GraphKeys(ts, Len(ts))),
     cycles    |-> <<>>,
     visited   |-> {},
     rec_stack |-> {},
     frames    |-> <<>>,
     k         |-> 1,
     entered   |-> <<>>,
     err       |-> FALSE]

\* DfsEnter with a slip: the frame starts without path.append(node)
DfsEnter_NoAppend(d, node, path) ==
    [d EXCEPT !.visited   = @ \cup {node},
              !.rec_stack = @ \cup {node},
              !.frames    = Append(@, [node |-> node, path |-> path, i |-> 1]),
              !.entered   = Append(@, node)]

\* dfs(node, path): lines 190-192, the frame is pushed with its first neighbor next
DfsEnter(d, node, path) ==
    [d EXCEPT !.visited   = @ \cup {node},
              !.rec_stack = @ \cup {node},
              !.frames    = Append(@, [node |-> node, path |-> Append(path, node), i |-> 1]),
              !.entered   = Append(@, node)]

DfsTop(d) == d.frames[Len(d.frames)]

DfsAtLoop(d) == d.state = "running" /\ d.frames = <<>> /\ d.k <= Len(d.keys)

DfsAtNeighbor(d) ==
    /\ d.state = "running"
    /\ d.frames # <<>>
    /\ DfsTop(d).i <= Len(d.graph[DfsTop(d).node])

DfsAtReturn(d) ==
    /\ d.state = "running"
    /\ d.frames # <<>>
    /\ DfsTop(d).i > Len(d.graph[DfsTop(d).node])

DfsAtEnd(d) == d.state = "running" /\ d.frames = <<>> /\ d.k > Len(d.keys)

\* for task_id in graph: if task_id not in visited: dfs(task_id, [])
DfsLoopStep(d) ==
    LET node == d.keys[d.k]
        d1   == [d EXCEPT !.k = @ + 1]
    IN  IF node \notin d.visited THEN DfsEnter(d1, node, <<>>) ELSE d1

\* DfsNeighborStep with a slip: a neighbor equal to the node itself is skipped,
\* so a self-dependency is never reported
DfsNeighborStep_SkipSelf(d) ==
    LET f        == DfsTop(d)
        neighbor == d.graph[f.node][f.i]
        d1       == [d EXCEPT !.frames[Len(d.frames)].i = @ + 1]
    IN  IF neighbor \notin d.task_ids \/ neighbor = f.node THEN d1
        ELSE IF neighbor \notin d.visited THEN DfsEnter(d1, neighbor, f.path)
        ELSE IF neighbor \in d.rec_stack
             THEN [d1 EXCEPT !.cycles = Append(@, MakeCycle(f.path, neighbor))]
        ELSE d1

\* one iteration of "for neighbor in graph.get(node, [])"
DfsNeighborStep(d) ==
    LET f        == DfsTop(d)
        neighbor == d.graph[f.node][f.i]
        d1       == [d EXCEPT !.frames[Len(d.frames)].i = @ + 1]
    IN  IF neighbor \notin d.task_ids THEN d1
        ELSE IF neighbor \notin d.visited THEN DfsEnter(d1, neighbor, f.path)
        ELSE IF neighbor \in d.rec_stack
             THEN IF PathIndex(f.path, neighbor) = 0
                  THEN [d1 EXCEPT !.err = TRUE, !.state = "raised"]
                  ELSE [d1 EXCEPT !.cycles = Append(@, MakeCycle(f.path, neighbor))]
        ELSE d1

\* DfsReturnStep with a slip: dfs(neighbor, path) without the copy, so the
\* caller's path keeps what the callee appended
DfsReturnStep_SharedPath(d) ==
    LET n == Len(d.frames)
        popped == [d EXCEPT !.rec_stack = @ \ {DfsTop(d).node},
                            !.frames    = SubSeq(@, 1, n - 1)]
    IN  IF n >= 2 THEN [popped EXCEPT !.frames[n - 1].path = DfsTop(d).path]
        ELSE popped

\* DfsReturnStep with a slip: the frame returns without rec_stack.remove(node)
DfsReturnStep_KeepsStack(d) == [d EXCEPT !.frames = SubSeq(@, 1, Len(@) - 1)]

\* rec_stack.remove(node), and the frame returns
DfsReturnStep(d) ==
    [d EXCEPT !.rec_stack = @ \ {DfsTop(d).node},
              !.frames    = SubSeq(@, 1, Len(@) - 1)]

\* return cycles
DfsEndStep(d) == [d EXCEPT !.state = "returned"]

DfsStep(d) ==
    IF DfsAtLoop(d) THEN DfsLoopStep(d)
    ELSE IF DfsAtNeighbor(d) THEN DfsNeighborStep(d)
    ELSE IF DfsAtReturn(d) THEN DfsReturnStep(d)
    ELSE DfsEndStep(d)

RECURSIVE DfsRun(_)
DfsRun(d) == IF d.state = "running" THEN DfsRun(DfsStep(d)) ELSE d

\* the whole call, as the entry points use it
detect_circular_dependencies(ts) == DfsRun(DfsStart(ts))

----------------------------------------------------------------------------
(* Task records *)

\* a validated task: the fields of TaskInputSerializer
Task(id, title, due, imp, hours, deps) ==
    [task_id |-> id, title |-> title, due_date |-> due, importance |-> imp,
     estimated_hours |-> hours, dependencies |-> deps]

\* a task of which only the id and the dependencies vary (the fields the
\* cycle detector reads); position p names it
PlainTask(p, id, deps) == Task(id, p, Today + 5, 5, 2000, deps)

\* dependency lists of at most two ids of U, ascending, no duplicates
\* (validate_dependencies)
DepLists(U) ==
    {<<>>} \cup {<<a>> : a \in U}
           \cup {<<p[1], p[2]>> : p \in {q \in U \X U : q[1] < q[2]}}

\* dependency lists of at most one id of U
ShortDepLists(U) == {<<>>} \cup {<<a>> : a \in U}

\* task lists of n tasks that carry the distinct ids 1..n; a dependency may
\* name any id of 1..MaxTasks, present or not
DistinctIdLists(n) ==
    {[i \in 1..n |-> PlainTask(i, i, f[i])] : f \in [1..n -> DepLists(1..MaxTasks)]}

\* task lists of n tasks whose ids may be absent or shared
AnyIdLists(n) ==
    {[i \in 1..n |-> PlainTask(i, f[i][1], f[i][2])] :
        f \in [1..n -> (({NoId} \cup 1..n) \X ShortDepLists(1..n))]}

DfsInputs ==
    UNION {DistinctIdLists(n) : n \in 1..MaxTasks}
        \cup UNION {AnyIdLists(n) : n \in 1..(MaxTasks - 1)}

NoScorer == [strategy |-> "none"]

NoResult == [kind |-> "none"]

----------------------------------------------------------------------------
(* SpecDFS: detect_circular_dependencies, one step of the search at a time *)

InitDFS ==
    /\ tasks \in DfsInputs
    /\ arg = <<>>
    /\ scorer = NoScorer
    /\ dfs = DfsIdle
    /\ result = NoResult
    /\ pc = "idle"
    /\ calls = <<>>
    /\ heap = <<>>

\* the call: lines 173-186
DfsCall ==
    /\ pc = "idle"
    /\ dfs = DfsIdle
    /\ dfs' = DfsStart(tasks)
    /\ pc' = "detecting"
    /\ calls' = Append(calls, "detect_circular_dependencies")
    /\ UNCHANGED <<heap, tasks, arg, scorer, result>>

\* lines 208-210
DfsLoop ==
    /\ pc = "detecting"
    /\ DfsAtLoop(dfs)
    /\ dfs' = DfsLoopStep(dfs)
    /\ UNCHANGED <<heap, tasks, arg, scorer, result, pc, calls>>

\* lines 194-204
DfsNeighbor ==
    /\ pc = "detecting"
    /\ DfsAtNeighbor(dfs)
    /\ dfs' = DfsNeighborStep(dfs)
    /\ UNCHANGED <<heap, tasks, arg, scorer, result, pc, calls>>

\* line 206
DfsReturn ==
    /\ pc = "detecting"
    /\ DfsAtReturn(dfs)
    /\ dfs' = DfsReturnStep(dfs)
    /\ UNCHANGED <<heap, tasks, arg, scorer, result, pc, calls>>

\* line 212
DfsEnd ==
    /\ pc = "detecting"
    /\ DfsAtEnd(dfs)
    /\ dfs' = DfsEndStep(dfs)
    /\ result' = [kind |-> "cycles", cycles |-> dfs.cycles]
    /\ pc' = "done"
    /\ UNCHANGED <<heap, tasks, arg, scorer, calls>>

NextDFS == DfsCall \/ DfsLoop \/ DfsNeighbor \/ DfsReturn \/ DfsEnd

SpecDFS == InitDFS /\ [][NextDFS]_vars

----------------------------------------------------------------------------
(* What the cycle detector is judged against: the dependency graph itself *)

\* the ids carried by the tasks
IdsOf(ts) == {ts[i].task_id : i \in 1..Len(ts)} \ {NoId}

\* a lists b: some task with id a declares the dependency b, and b is an id
\* of the list
Lists(ts, a, b) ==
    /\ b \in IdsOf(ts)
    /\ \E i \in 1..Len(ts) : ts[i].task_id = a /\ a # NoId /\ b \in Range(ts[i].dependencies)

RECURSIVE ReachWithin(_, _, _)
\* the ids reached from the set S in one step or more, at most n steps
ReachWithin(ts, S, n) ==
    IF n = 0 THEN {}
    ELSE LET N == {b \in IdsOf(ts) : \E a \in S : Lists(ts, a, b)}
         IN  N \cup ReachWithin(ts, N, n - 1)

\* the restricted dependency graph has a cycle (a self-dependency included)
Cyclic(ts) == \E a \in IdsOf(ts) : a \in ReachWithin(ts, {a}, Len(ts))

\* no two tasks carry the same id
DistinctIds(ts) ==
    \A i, j \in 1..Len(ts) :
        (i # j /\ ts[i].task_id # NoId) => ts[i].task_id # ts[j].task_id

\* c is a closed dependency loop of ts
ClosedLoop(ts, c) ==
    /\ Len(c) >= 2
    /\ c[1] = c[Len(c)]
    /\ \A i, j \in 1..(Len(c) - 1) : i # j => c[i] # c[j]
    /\ \A i \in 1..Len(c) : c[i] \in IdsOf(ts)
    /\ \A i \in 1..(Len(c) - 1) : Lists(ts, c[i], c[i + 1])

----------------------------------------------------------------------------
(* Claims about detect_circular_dependencies (SpecDFS) *)

\* the call has returned its list of cycles
DfsReturned == pc = "done" /\ dfs.state = "returned" /\ result.kind = "cycles"

\* C2: completeness.  Once detect_circular_dependencies has returned for a
\* task list with distinct ids whose restricted dependency graph has a cycle
\* (a self-dependency included), the returned list holds at least one
\* cycle; for a lone task with id x that depends on itself it holds [x, x].
C2_Complete ==
    (DfsReturned /\ DistinctIds(tasks)) =>
        /\ Cyclic(tasks) => result.cycles # <<>>
        /\ (/\ Len(tasks) = 1
            /\ tasks[1].task_id # NoId
            /\ tasks[1].task_id \in Range(tasks[1].dependencies))
           => <<tasks[1].task_id, tasks[1].task_id>> \in Range(result.cycles)

\* a returned list for a three-task loop 1 -> 2 -> 3 -> 1 with distinct ids
C2_Witness ==
    /\ DfsReturned
    /\ DistinctIds(tasks)
    /\ Len(tasks) = 3
    /\ Lists(tasks, 1, 2) /\ Lists(tasks, 2, 3) /\ Lists(tasks, 3, 1)
    /\ ~Lists(tasks, 1, 1) /\ ~Lists(tasks, 2, 2) /\ ~Lists(tasks, 3, 3)
    /\ result.cycles # <<>>

\* C3: soundness.  At every point of the search, and in the returned list,
\* every recorded cycle is a closed dependency loop of the input (first id
\* = last id, no other id repeated, every id an input id, every consecutive
\* pair a declared dependency); and a list whose restricted dependency graph
\* is acyclic returns the empty list.
C3_Sound ==
    dfs.state # "idle" =>
        /\ \A i \in 1..Len(dfs.cycles) : ClosedLoop(tasks, dfs.cycles[i])
        /\ dfs.cycles # <<>> => Cyclic(tasks)
        /\ DfsReturned => result.cycles = dfs.cycles

\* a cycle recorded in a later branch of a node whose first branch returned:
\* 1 -> 2 and 1 -> 3, 3 -> 1, the cycle [1, 3, 1] without the sibling 2
C3_Witness ==
    /\ DfsReturned
    /\ Len(tasks) = 3
    /\ DistinctIds(tasks)
    /\ tasks[1].dependencies = <<2, 3>>
    /\ <<1, 3, 1>> \in Range(result.cycles)

\* C19: at every point of the search where a neighbor is examined, the
\* current path holds exactly the ids of the recursion stack, in root-to-
\* current order (the nodes of the open frames) and without duplicates; so
\* the position lookup of a neighbor found in the recursion stack never
\* fails, and every cycle that is recorded consists only of ids that are in
\* the recursion stack at that moment, none left over from a branch that
\* has returned.
C19_PathIsStack ==
    /\ [](DfsAtNeighbor(dfs) =>
            LET path == DfsTop(dfs).path
            IN  /\ Range(path) = dfs.rec_stack
                /\ path = [i \in 1..Len(dfs.frames) |-> dfs.frames[i].node]
                /\ \A i, j \in 1..Len(path) : i # j => path[i] # path[j]
                /\ \A x \in dfs.rec_stack : PathIndex(path, x) # 0)
    /\ [](dfs.state # "idle" => ~dfs.err)
    /\ [][(dfs.state # "idle" /\ dfs'.cycles # dfs.cycles) =>
            /\ Len(dfs'.cycles) = Len(dfs.cycles) + 1
            /\ Range(dfs'.cycles[Len(dfs'.cycles)]) \subseteq dfs.rec_stack]_vars

\* node 3 examines its neighbor 1, which is in the recursion stack, after
\* the sibling branch of node 2 has returned: the path is [1, 3]
C19_Witness ==
    /\ DfsAtNeighbor(dfs)
    /\ DfsTop(dfs).node = 3
    /\ dfs.graph[3][DfsTop(dfs).i] = 1
    /\ DfsTop(dfs).path = <<1, 3>>
    /\ dfs.rec_stack = {1, 3}
    /\ 2 \in dfs.visited

\* the interpreter runs the call to its end: a step that can be taken is
\* taken
SpecDFSLive == InitDFS /\ [][NextDFS]_vars /\ WF_vars(NextDFS)

\* C18: detect_circular_dependencies terminates on every finite task list,
\* cyclic graphs and self-dependencies included: a call that has started
\* returns; the search enters each task id at most once; and when the call
\* returns the recursion-stack set is empty and no frame is left.
C18_Terminates ==
    /\ (pc = "detecting") ~> DfsReturned
    /\ [](dfs.state # "idle" =>
            \A i, j \in 1..Len(dfs.entered) : i # j => dfs.entered[i] # dfs.entered[j])
    /\ [](DfsReturned => (dfs.rec_stack = {} /\ dfs.frames = <<>> /\ ~dfs.err))

\* a returned call on three tasks that form a loop, one of them also
\* depending on itself, after the search entered all three
C18_Witness ==
    /\ DfsReturned
    /\ Len(tasks) = 3
    /\ DistinctIds(tasks)
    /\ Lists(tasks, 1, 1) /\ Lists(tasks, 1, 2) /\ Lists(tasks, 2, 3) /\ Lists(tasks, 3, 1)
    /\ Len(dfs.entered) = 3
    /\ dfs.rec_stack = {}

----------------------------------------------------------------------------
(* TaskScorer: strategies and component scores *)

\* score points are counted in units of 1/SCALE
SCALE == 100000

\* the largest integer of the checker's arithmetic
MaxInt == 2147483647

\* STRATEGIES with a slip: high_impact carries the weights of deadline_driven
STRATEGIES_ImpactAsDeadline ==
    [smart_balance   |-> [urgency |-> 35, importance |-> 35, effort |-> 15, dependencies |-> 15],
     fastest_wins    |-> [urgency |-> 20, importance |-> 20, effort |-> 50, dependencies |-> 10],
     high_impact     |-> [urgency |-> 60, importance |-> 20, effort |-> 5,  dependencies |-> 15],
     deadline_driven |-> [urgency |-> 60, importance |-> 20, effort |-> 5,  dependencies |-> 15]]

\* STRATEGIES, weights in hundredths
STRATEGIES ==
    [smart_balance   |-> [urgency |-> 35, importance |-> 35, effort |-> 15, dependencies |-> 15],
     fastest_wins    |-> [urgency |-> 20, importance |-> 20, effort |-> 50, dependencies |-> 10],
     high_impact     |-> [urgency |-> 15, importance |-> 60, effort |-> 5,  dependencies |-> 20],
     deadline_driven |-> [urgency |-> 60, importance |-> 20, effort |-> 5,  dependencies |-> 15]]

StrategyNames == DOMAIN STRATEGIES

\* NewScorer with a slip: an unknown strategy falls back to smart_balance
NewScorer_Fallback(strategy) ==
    IF strategy \notin StrategyNames
    THEN [strategy |-> "smart_balance", weights |-> STRATEGIES["smart_balance"]]
    ELSE [strategy |-> strategy, weights |-> STRATEGIES[strategy]]

\* TaskScorer(strategy): the scorer, or the ValueError of line 56
NewScorer(strategy) ==
    IF strategy \notin StrategyNames
    THEN [strategy |-> "none", error |-> "Invalid strategy", choices |-> StrategyNames]
    ELSE [strategy |-> strategy, weights |-> STRATEGIES[strategy]]

\* calculate_urgency_score with a slip: the overdue branch without its cap
calculate_urgency_score_Uncapped(due_date) ==
    LET days_until_due == due_date - Today
    IN  IF days_until_due < 0 THEN 95 * SCALE + (0 - days_until_due) * 2 * SCALE
        ELSE IF days_until_due = 0 THEN 95 * SCALE
        ELSE IF days_until_due <= 7 THEN 90 * SCALE - days_until_due * 3 * SCALE
        ELSE IF days_until_due <= 30
             THEN 65 * SCALE - (days_until_due - 7) * 12 * (SCALE \div 10)
        ELSE Max(10 * SCALE, (35 * 30 * SCALE) \div days_until_due)

calculate_urgency_score(due_date) ==
    LET days_until_due == due_date - Today
    IN  IF days_until_due < 0
        THEN Min(100 * SCALE, 95 * SCALE + (0 - days_until_due) * 2 * SCALE)
        ELSE IF days_until_due = 0 THEN 95 * SCALE
        ELSE IF days_until_due <= 7 THEN 90 * SCALE - days_until_due * 3 * SCALE
        ELSE IF days_until_due <= 30
             THEN 65 * SCALE - (days_until_due - 7) * 12 * (SCALE \div 10)
        \* 35 / (1 + (d - 30) / 30) = 35 * 30 / d
        ELSE Max(10 * SCALE, (35 * 30 * SCALE) \div days_until_due)

\* floor(SCALE * (importance ** 1.8) / (10 ** 1.8) * 100), importance = 1..10
ImportanceTable ==
    <<158489, 551891, 1145033, 1921799, 2871745,
      3987238, 5262310, 6692093, 8272495, 10000000>>

calculate_importance_score(importance) == ImportanceTable[importance]

\* floor(SCALE * math.log((h - 15000) / 1000)) for the estimated hours h
\* (in thousandths) above 16 hours that the model draws
LogTable ==
    [h \in {16001, 17000, 20000, 60000, 1000000} |->
        CASE h = 16001 -> 99
          [] h = 17000 -> 69314
          [] h = 20000 -> 160943
          [] h = 60000 -> 380666
          [] h = 1000000 -> 689264]

calculate_effort_score(estimated_hours) ==
    IF estimated_hours <= 1000 THEN 100 * SCALE - estimated_hours * 1000
    ELSE IF estimated_hours <= 4000 THEN 90 * SCALE - (estimated_hours - 1000) * 667
    ELSE IF estimated_hours <= 8000 THEN 70 * SCALE - (estimated_hours - 4000) * 500
    ELSE IF estimated_hours <= 16000 THEN 50 * SCALE - (estimated_hours - 8000) * 250
    ELSE Max(10 * SCALE, 30 * SCALE - LogTable[estimated_hours] * 5)

RECURSIVE ISqrtIn(_, _, _)
\* the integer square root of n, known to lie in lo..hi
ISqrtIn(n, lo, hi) ==
    IF lo >= hi THEN lo
    ELSE LET mid == (lo + hi + 1) \div 2
         IN  IF mid * mid <= n THEN ISqrtIn(n, mid, hi) ELSE ISqrtIn(n, lo, mid - 1)

ISqrt(n) == ISqrtIn(n, 0, 46340)

RECURSIVE Pow10(_)
Pow10(k) == IF k = 0 THEN 1 ELSE 10 * Pow10(k - 1)

\* blocked_count ** 1.5 in units of 1/SCALE: sqrt(n^3), with as many of the
\* five decimals (at most four) as the checker's integers hold, the rest
\* truncated
Pow15(n) ==
    LET cube == n * n * n
        k    == CHOOSE j \in 0..4 :
                    /\ cube <= MaxInt \div (Pow10(j) * Pow10(j))
                    /\ \A i \in (j + 1)..4 : cube > MaxInt \div (Pow10(i) * Pow10(i))
    IN  ISqrt(cube * Pow10(k) * Pow10(k)) * Pow10(5 - k)

\* the number of tasks of all_tasks that list task_id as a dependency
BlockedCount(task_id, all_tasks) ==
    Cardinality({i \in 1..Len(all_tasks) : task_id \in Range(all_tasks[i].dependencies)})

calculate_dependency_score(task_id, all_tasks) ==
    LET blocked_count == BlockedCount(task_id, all_tasks)
    IN  IF blocked_count = 0 THEN 20 * SCALE
        ELSE Min(100 * SCALE, 20 * SCALE + blocked_count * 25 * SCALE - Pow15(blocked_count))

----------------------------------------------------------------------------
(* TaskScorer: priority, batch scoring, suggestions *)

\* round(x, 2) of a value counted in units of which `unit` make a hundredth;
\* the result is a count of hundredths (a tie goes up)
Round2(x, unit) == (x + unit \div 2) \div unit

\* _generate_explanation: the phrases, in order (" | ".join)
GenerateExplanation(urgency, importance, effort, dependencies, due_date, estimated_hours) ==
    LET days_until_due == due_date - Today
        u == IF days_until_due < 0 THEN <<"OVERDUE">>
             ELSE IF days_until_due = 0 THEN <<"Due TODAY">>
             ELSE IF days_until_due <= 3 THEN <<"Due in days">>
             ELSE IF days_until_due <= 7 THEN <<"Due this week">>
             ELSE <<>>
        i == IF importance >= 80 * SCALE THEN <<"High importance">>
             ELSE IF importance >= 60 * SCALE THEN <<"Medium importance">>
             ELSE <<>>
        e == IF estimated_hours <= 1000 THEN <<"Quick win">>
             ELSE IF estimated_hours <= 4000 THEN <<"Short task">>
             ELSE <<>>
        d == IF dependencies >= 70 * SCALE THEN <<"Blocks multiple tasks">>
             ELSE IF dependencies >= 45 * SCALE THEN <<"Blocks other tasks">>
             ELSE <<>>
        all == u \o i \o e \o d
    IN  IF all # <<>> THEN all ELSE <<"Standard priority task">>

\* the dependencies component of calculate_priority (line 243): "if task_id"
\* is false for None and for 0
DependencyComponent(task, all_tasks) ==
    IF task.task_id # NoId /\ task.task_id # 0
    THEN calculate_dependency_score(task.task_id, all_tasks)
    ELSE 20 * SCALE

\* the weighted sum of lines 246-251, in units of 1/(100 * SCALE)
WeightedSum(w, urgency_score, importance_score, effort_score, dependency_score) ==
    urgency_score * w.urgency + importance_score * w.importance
        + effort_score * w.effort + dependency_score * w.dependencies

\* lines 254-259, on the unrounded score
PriorityLevel(priority_score) ==
    IF priority_score >= 80 * SCALE * 100 THEN "High"
    ELSE IF priority_score >= 60 * SCALE * 100 THEN "Medium"
    ELSE "Low"

calculate_priority(s, task, all_tasks) ==
    LET urgency_score    == calculate_urgency_score(task.due_date)
        importance_score == calculate_importance_score(task.importance)
        effort_score     == calculate_effort_score(task.estimated_hours)
        dependency_score == DependencyComponent(task, all_tasks)
        priority_score   == WeightedSum(s.weights, urgency_score, importance_score,
                                        effort_score, dependency_score)
    IN  [priority_score   |-> Round2(priority_score, SCALE),
         priority_level   |-> PriorityLevel(priority_score),
         explanation      |-> GenerateExplanation(urgency_score, importance_score,
                                  effort_score, dependency_score,
                                  task.due_date, task.estimated_hours),
         component_scores |-> [urgency      |-> Round2(urgency_score, SCALE \div 100),
                               importance   |-> Round2(importance_score, SCALE \div 100),
                               effort       |-> Round2(effort_score, SCALE \div 100),
                               dependencies |-> Round2(dependency_score, SCALE \div 100)]]

\* scored_task = {**task, **score_data}
ScoredTask(s, task, all_tasks) == calculate_priority(s, task, all_tasks) @@ task

\* InsertByScore with a slip: the sort without reverse=True (ascending)
InsertByScore_Ascending(sorted, x) ==
    LET n == Cardinality({i \in 1..Len(sorted) : sorted[i].priority_score <= x.priority_score})
    IN  SubSeq(sorted, 1, n) \o <<x>> \o SubSeq(sorted, n + 1, Len(sorted))

\* InsertByScore with a slip: x goes before the entries of equal key, as a
\* sort that reverses an ascending result would place it
InsertByScore_BeforeEqual(sorted, x) ==
    LET n == Cardinality({i \in 1..Len(sorted) : sorted[i].priority_score > x.priority_score})
    IN  SubSeq(sorted, 1, n) \o <<x>> \o SubSeq(sorted, n + 1, Len(sorted))

\* list.sort(key=priority_score, reverse=True) puts x after every entry whose
\* key is not smaller: the sort is stable
InsertByScore(sorted, x) ==
    LET n == Cardinality({i \in 1..Len(sorted) : sorted[i].priority_score >= x.priority_score})
    IN  SubSeq(sorted, 1, n) \o <<x>> \o SubSeq(sorted, n + 1, Len(sorted))

RECURSIVE SortByScore(_, _)
\* the first n entries of scored_tasks, sorted
SortByScore(scored_tasks, n) ==
    IF n = 0 THEN <<>>
    ELSE InsertByScore(SortByScore(scored_tasks, n - 1), scored_tasks[n])

score_tasks(s, ts) ==
    SortByScore([i \in 1..Len(ts) |-> ScoredTask(s, ts[i], ts)], Len(ts))

\* _generate_action_items
GenerateActionItems(task, rank) ==
    LET days_until_due == task.due_date - Today
    IN  (IF rank = 1 THEN <<"Start this task immediately">> ELSE <<"Schedule this as task #rank today">>)
        \o (IF task.estimated_hours <= 1000 THEN <<"Quick win">>
            ELSE IF task.estimated_hours <= 4000 THEN <<"Block time in your calendar">>
            ELSE <<"Break down into smaller subtasks">>)
        \o (IF days_until_due < 0 THEN <<"Communicate delay or adjust scope">>
            ELSE IF days_until_due <= 1 THEN <<"Must complete today">>
            ELSE <<>>)
        \o (IF task.component_scores.dependencies >= 70 * 100
            THEN <<"Completing this will unblock other tasks">> ELSE <<>>)

\* SlicePrefix with a slip: the slice takes one entry too many
SlicePrefix_OneMore(seq, limit) == SubSeq(seq, 1, Min(limit + 1, Len(seq)))

\* scored_tasks[:limit]
SlicePrefix(seq, limit) ==
    IF limit >= 0 THEN SubSeq(seq, 1, Min(limit, Len(seq)))
    ELSE SubSeq(seq, 1, Max(0, Len(seq) + limit))

get_top_suggestions(s, ts, limit) ==
    LET top_tasks == SlicePrefix(score_tasks(s, ts), limit)
    IN  [i \in 1..Len(top_tasks) |->
            [task_id         |-> top_tasks[i].task_id,
             title           |-> top_tasks[i].title,
             due_date        |-> top_tasks[i].due_date,
             estimated_hours |-> top_tasks[i].estimated_hours,
             importance      |-> top_tasks[i].importance,
             priority_score  |-> top_tasks[i].priority_score,
             reason          |-> top_tasks[i].explanation,
             action_items    |-> GenerateActionItems(top_tasks[i], i)]]

----------------------------------------------------------------------------
(* SpecScore: a scorer is constructed and scores a batch *)

\* the (due_date, importance, estimated_hours) a task of a batch may have:
\* due today, top importance, 6.336 hours; or due in 45 days, importance 2,
\* half an hour
Profiles == {<<Today, 10, 6336>>, <<Today + 45, 2, 500>>}

\* what varies in a task of a batch: whether it carries an id, its profile,
\* and whether it depends on nothing, on task 0 or on task 1
BatchChoices == BOOLEAN \X Profiles \X ShortDepLists({0, 1})

\* the task at position p carries the id p - 1 or none
BatchTask(p, c) ==
    Task(IF c[1] THEN p - 1 ELSE NoId, p, c[2][1], c[2][2], c[2][3], c[3])

BatchesOf(n) == {[p \in 1..n |-> BatchTask(p, c[p])] : c \in [1..n -> BatchChoices]}

Batches == UNION {BatchesOf(n) : n \in 1..MaxBatch}

InitScore ==
    /\ tasks \in Batches
    /\ arg = <<>>
    /\ scorer = NoScorer
    /\ dfs = DfsIdle
    /\ result = NoResult
    /\ pc = "idle"
    /\ calls = <<>>
    /\ heap = <<>>

\* scorer = TaskScorer(strategy=strategy)
Construct ==
    /\ pc = "idle"
    /\ \E strategy \in StrategyNames \cup {"bogus"} :
          /\ scorer' = NewScorer(strategy)
          /\ pc' = IF strategy \in StrategyNames THEN "ready" ELSE "raised"
    /\ UNCHANGED <<heap, tasks, arg, dfs, result, calls>>

\* scorer.calculate_priority(tasks[i], tasks), for one of the first tasks
CalculatePriority ==
    /\ pc = "ready"
    /\ \E i \in 1..Min(Len(tasks), MaxBatch) :
          result' = [kind |-> "priority", index |-> i,
                     score |-> calculate_priority(scorer, tasks[i], tasks)]
    /\ pc' = "done"
    /\ UNCHANGED <<heap, tasks, arg, scorer, dfs, calls>>

\* scorer.score_tasks(tasks)
ScoreTasks ==
    /\ pc = "ready"
    /\ result' = [kind |-> "scored", scored |-> score_tasks(scorer, tasks)]
    /\ pc' = "done"
    /\ UNCHANGED <<heap, tasks, arg, scorer, dfs, calls>>

\* scorer.get_top_suggestions(tasks, limit)
GetTopSuggestions ==
    /\ pc = "ready"
    /\ \E limit \in 0..MaxLimit :
          result' = [kind |-> "suggestions", limit |-> limit,
                     suggestions |-> get_top_suggestions(scorer, tasks, limit)]
    /\ pc' = "done"
    /\ UNCHANGED <<heap, tasks, arg, scorer, dfs, calls>>

\* the caller drops the returned value and is free to call the scorer again
NextCall ==
    /\ pc = "done"
    /\ scorer # NoScorer
    /\ pc' = "ready"
    /\ result' = NoResult
    /\ UNCHANGED <<heap, tasks, arg, scorer, dfs, calls>>

NextScore == Construct \/ CalculatePriority \/ ScoreTasks \/ GetTopSuggestions \/ NextCall

SpecScore == InitScore /\ [][NextScore]_vars

----------------------------------------------------------------------------
(* Claims about scoring a batch (SpecScore) *)

\* the fields of a task record
TaskFields == {"task_id", "title", "due_date", "importance", "estimated_hours", "dependencies"}

\* the fields calculate_priority returns
ScoreFields == {"priority_score", "priority_level", "explanation", "component_scores"}

\* C4: score_tasks returns exactly one scored entry per input task, each
\* holding the task's own fields unchanged together with the score data of
\* that task, and priority_score never increases from one entry to the next.
C4_OnePerTaskSorted ==
    result.kind = "scored" =>
        LET out == result.scored
        IN  /\ Len(out) = Len(tasks)
            /\ \A p \in 1..Len(tasks) :
                  \E i \in 1..Len(out) :
                      /\ \A f \in TaskFields : out[i][f] = tasks[p][f]
                      /\ DOMAIN out[i] = TaskFields \cup ScoreFields
                      /\ \A j \in 1..Len(out) : out[j].title = p => j = i
            /\ \A i, j \in 1..Len(out) :
                  i < j => out[i].priority_score >= out[j].priority_score

\* a batch of three that the sort had to reorder: the first input task comes
\* last and the last comes first, with three different scores
C4_Witness ==
    /\ result.kind = "scored"
    /\ Len(tasks) = 3
    /\ result.scored[1].title = 3
    /\ result.scored[3].title = 1
    /\ result.scored[1].priority_score > result.scored[2].priority_score
    /\ result.scored[2].priority_score > result.scored[3].priority_score

\* C5: under smart_balance, of two tasks of the batch that carry ids and
\* have the same due date, importance and estimated hours, the one listed as
\* a dependency by more tasks of the batch has a priority_score at least as
\* high as the other.
C5_FanOutMonotone ==
    (result.kind = "scored" /\ scorer.strategy = "smart_balance") =>
        \A i, j \in 1..Len(result.scored) :
            LET a == result.scored[i]
                b == result.scored[j]
            IN  (/\ a.task_id # NoId /\ b.task_id # NoId
                 /\ a.due_date = b.due_date
                 /\ a.importance = b.importance
                 /\ a.estimated_hours = b.estimated_hours
                 /\ BlockedCount(a.task_id, tasks) > BlockedCount(b.task_id, tasks))
                => a.priority_score >= b.priority_score

\* C8: the priority_level of a calculate_priority result agrees with the
\* priority_score it returns: High exactly from 80.00, Medium exactly from
\* 60.00 up to 80.00, Low exactly below 60.00.
C8_LevelAgrees ==
    result.kind = "priority" =>
        LET r == result.score
        IN  /\ r.priority_level = "High" <=> r.priority_score >= 8000
            /\ r.priority_level = "Medium" <=>
                   (r.priority_score >= 6000 /\ r.priority_score < 8000)
            /\ r.priority_level = "Low" <=> r.priority_score < 6000

\* C9: the dependencies component of a calculate_priority result is the
\* dependency score of the task's id in all_tasks whenever the task carries
\* an id, and the flat 20 only when it carries none; a task with an id that
\* no task lists has the component 20.
C9_DependencyComponent ==
    result.kind = "priority" =>
        LET t == tasks[result.index]
            c == result.score.component_scores.dependencies
        IN  /\ t.task_id # NoId =>
                  c = Round2(calculate_dependency_score(t.task_id, tasks), SCALE \div 100)
            /\ t.task_id = NoId => c = 20 * 100
            /\ (t.task_id # NoId /\ BlockedCount(t.task_id, tasks) = 0) => c = 20 * 100

\* C17: score_tasks breaks ties stably: two input tasks that receive equal
\* priority_score appear in the output in their input order (title is the
\* input position), so the output is the one descending order of the batch
\* that keeps equal scores in input order.
C17_StableTies ==
    result.kind = "scored" =>
        \A i, j \in 1..Len(result.scored) :
            (/\ i < j
             /\ result.scored[i].priority_score = result.scored[j].priority_score)
            => result.scored[i].title < result.scored[j].title

\* the second input task moved ahead of the first and the third, which tie
\* and keep their input order
C17_Witness ==
    /\ result.kind = "scored"
    /\ Len(tasks) = 3
    /\ result.scored[1].title = 2
    /\ result.scored[2].title = 1
    /\ result.scored[3].title = 3
    /\ result.scored[1].priority_score > result.scored[2].priority_score
    /\ result.scored[2].priority_score = result.scored[3].priority_score

\* C13: get_top_suggestions(tasks, limit) with limit >= 0 returns exactly
\* min(limit, number of tasks) suggestions; suggestion i carries the fields,
\* the priority_score and the explanation of entry i of score_tasks(tasks),
\* so priority_score never increases from one suggestion to the next; and
\* each suggestion has from 2 to 4 action items.
C13_TopSuggestions ==
    (result.kind = "suggestions" /\ result.limit >= 0) =>
        LET out    == result.suggestions
            scored == score_tasks(scorer, tasks)
            n      == IF result.limit <= Len(tasks) THEN result.limit ELSE Len(tasks)
        IN  /\ Len(out) = n
            /\ \A i \in 1..Len(out) :
                  /\ \A f \in {"task_id", "title", "due_date", "estimated_hours",
                               "importance", "priority_score"} : out[i][f] = scored[i][f]
                  /\ out[i].reason = scored[i].explanation
                  /\ Len(out[i].action_items) >= 2
                  /\ Len(out[i].action_items) <= 4
            /\ \A i, j \in 1..Len(out) :
                  i < j => out[i].priority_score >= out[j].priority_score

\* the top two of three tasks: one with four action items (due today and
\* blocking three tasks) ahead of one with two
C13_Witness ==
    /\ result.kind = "suggestions"
    /\ Len(tasks) = 3
    /\ result.limit = 2
    /\ Len(result.suggestions) = 2
    /\ Len(result.suggestions[1].action_items) = 4
    /\ Len(result.suggestions[2].action_items) = 2
    /\ result.suggestions[1].priority_score > result.suggestions[2].priority_score

----------------------------------------------------------------------------
(* SpecFan: one task and a growing number of tasks that depend on it *)

\* the task with id 1 whose fan-out grows: due in 400 days, importance 1,
\* 1000 hours; or due today, importance 10, 6.336 hours
FanTargets ==
    {Task(1, 1, Today + 400, 1, 1000000, <<>>), Task(1, 1, Today, 10, 6336, <<>>)}

InitFan ==
    /\ tasks \in {<<t>> : t \in FanTargets}
    /\ arg = <<>>
    /\ scorer = NoScorer
    /\ dfs = DfsIdle
    /\ result = NoResult
    /\ pc = "idle"
    /\ calls = <<>>
    /\ heap = <<>>

\* the caller's list gets one more task that depends on task 1
AddBlocker ==
    /\ pc = "idle"
    /\ Len(tasks) < MaxFanBatch
    /\ tasks' = Append(tasks, Task(Len(tasks) + 1, Len(tasks) + 1, Today + 45, 2, 500, <<1>>))
    /\ UNCHANGED <<heap, arg, scorer, dfs, result, pc, calls>>

\* scorer.calculate_dependency_score(tasks[i].task_id, tasks), for one of the
\* first tasks
CalculateDependencyScore ==
    /\ pc = "ready"
    /\ \E i \in 1..Min(Len(tasks), MaxBatch) :
          result' = [kind |-> "dependency", task_id |-> tasks[i].task_id,
                     score |-> calculate_dependency_score(tasks[i].task_id, tasks)]
    /\ pc' = "done"
    /\ UNCHANGED <<heap, tasks, arg, scorer, dfs, calls>>

NextFan == AddBlocker \/ Construct \/ CalculateDependencyScore \/ CalculatePriority \/ NextCall

SpecFan == InitFan /\ [][NextFan]_vars

\* C7: calculate_dependency_score returns a value from 0 to 100, however
\* many tasks list the id as a dependency.
C7_DependencyScoreRange ==
    result.kind = "dependency" => (result.score >= 0 /\ result.score <= 100 * SCALE)

\* C6: for every built-in strategy, every well-formed task and every batch,
\* the priority_score calculate_priority returns is from 0 to 100.
C6_PriorityScoreRange ==
    result.kind = "priority" =>
        (result.score.priority_score >= 0 /\ result.score.priority_score <= 100 * 100)

----------------------------------------------------------------------------
(* SpecEffort: calculate_effort_score on two estimates *)

\* estimated hours (thousandths) in (0, 1000]: inside every segment, and at,
\* just below and just above the segment boundaries 1, 4, 8 and 16
EffortHours ==
    {100, 500, 999, 1000, 1001, 2500, 3999, 4000, 4001, 4002, 6336, 7999,
     8000, 8001, 12000, 15999, 16000, 16001, 17000, 20000, 60000, 1000000}

InitEffort ==
    /\ tasks = <<>>
    /\ arg \in {p \in EffortHours \X EffortHours : p[1] < p[2]}
    /\ scorer = NoScorer
    /\ dfs = DfsIdle
    /\ result = NoResult
    /\ pc = "idle"
    /\ calls = <<>>
    /\ heap = <<>>

\* scorer.calculate_effort_score(h) for both estimates
CalculateEffortScore ==
    /\ pc = "ready"
    /\ Len(arg) = 2
    /\ result' = [kind |-> "effort",
                  scores |-> <<calculate_effort_score(arg[1]), calculate_effort_score(arg[2])>>]
    /\ pc' = "done"
    /\ UNCHANGED <<heap, tasks, arg, scorer, dfs, calls>>

NextEffort == Construct \/ CalculateEffortScore \/ NextCall

SpecEffort == InitEffort /\ [][NextEffort]_vars

\* C10: for estimated hours h1 < h2 in (0, 1000] the effort score of h1 is
\* at least that of h2, across the segment boundaries too, and no effort
\* score is below 10.
C10_EffortMonotone ==
    result.kind = "effort" =>
        /\ arg[1] < arg[2] => result.scores[1] >= result.scores[2]
        /\ result.scores[1] >= 10 * SCALE
        /\ result.scores[2] >= 10 * SCALE

----------------------------------------------------------------------------
(* SpecUrgency: calculate_urgency_score on two due dates *)

\* due dates from MaxOverdue days overdue to today, and later ones inside
\* and at the ends of the week, month and asymptotic segments
UrgencyDates ==
    (Today - MaxOverdue)..Today
        \cup {Today + 1, Today + 7, Today + 8, Today + 30, Today + 31, Today + 400}

InitUrgency ==
    /\ tasks = <<>>
    /\ arg \in {p \in UrgencyDates \X UrgencyDates : p[1] < p[2]}
    /\ scorer = NoScorer
    /\ dfs = DfsIdle
    /\ result = NoResult
    /\ pc = "idle"
    /\ calls = <<>>
    /\ heap = <<>>

\* scorer.calculate_urgency_score(d) for both due dates
CalculateUrgencyScore ==
    /\ pc = "ready"
    /\ Len(arg) = 2
    /\ result' = [kind |-> "urgency",
                  scores |-> <<calculate_urgency_score(arg[1]), calculate_urgency_score(arg[2])>>]
    /\ pc' = "done"
    /\ UNCHANGED <<heap, tasks, arg, scorer, dfs, calls>>

NextUrgency == Construct \/ CalculateUrgencyScore \/ NextCall

SpecUrgency == InitUrgency /\ [][NextUrgency]_vars

\* C11: for overdue due dates the urgency score is strictly increasing in the
\* number of days overdue until it reaches 100 and stays at 100 from then on
\* (of two overdue dates the earlier scores strictly more unless the later
\* already scores 100, and then both score 100); an overdue score is always
\* above 95, the score of a task due today, and never above 100.
C11_OverdueUrgency ==
    result.kind = "urgency" =>
        /\ \A i \in 1..2 :
              /\ arg[i] < Today =>
                    (result.scores[i] > 95 * SCALE /\ result.scores[i] <= 100 * SCALE)
              /\ arg[i] = Today => result.scores[i] = 95 * SCALE
        /\ (arg[1] < arg[2] /\ arg[2] < Today) =>
              /\ result.scores[2] < 100 * SCALE => result.scores[1] > result.scores[2]
              /\ result.scores[2] = 100 * SCALE => result.scores[1] = 100 * SCALE

\* two and three days overdue: 99, and the first score that reaches 100
C11_Witness ==
    /\ result.kind = "urgency"
    /\ arg = <<Today - 3, Today - 2>>
    /\ result.scores = <<100 * SCALE, 99 * SCALE>>

----------------------------------------------------------------------------
(* SpecImpact: a task of importance 10 and a task of importance 2 *)

\* due dates: five days overdue, today, inside the month, far ahead
ImpactDates == {Today - 5, Today, Today + 20, Today + 400}

\* estimated hours (thousandths): 0.001, 1, 16 and 1000 hours
ImpactHours == {1, 1000, 16000, 1000000}

\* what varies in each of the two tasks: due date, hours, and whether it
\* depends on nothing, on task 1 or on task 2
ImpactChoices == ImpactDates \X ImpactHours \X ShortDepLists({1, 2})

\* the two tasks, ids 1 and 2, of importance 10 and 2 in either order
ImpactBatches ==
    {<<Task(1, 1, c[1][1], imp[1], c[1][2], c[1][3]),
       Task(2, 2, c[2][1], imp[2], c[2][2], c[2][3])>> :
        c \in ImpactChoices \X ImpactChoices, imp \in {<<10, 2>>, <<2, 10>>}}

InitImpact ==
    /\ tasks \in ImpactBatches
    /\ arg = <<>>
    /\ scorer = NoScorer
    /\ dfs = DfsIdle
    /\ result = NoResult
    /\ pc = "idle"
    /\ calls = <<>>
    /\ heap = <<>>

NextImpact == Construct \/ CalculatePriority \/ ScoreTasks \/ NextCall

SpecImpact == InitImpact /\ [][NextImpact]_vars

\* no other task of ts lists the id of the task at position p
NotListedByOthers(ts, p) ==
    \A q \in 1..Len(ts) : q # p => ts[p].task_id \notin Range(ts[q].dependencies)

\* C16: under high_impact, a task of importance 10 gets a strictly higher
\* priority_score than a task of importance 2 of the same batch, whatever
\* their due dates and estimated hours in (0, 1000], when neither is listed
\* as a dependency by any other task; so score_tasks puts it first.
C16_HighImpactRanks ==
    (result.kind = "scored" /\ scorer.strategy = "high_impact") =>
        \A i, j \in 1..Len(result.scored) :
            LET a == result.scored[i]
                b == result.scored[j]
            IN  (/\ a.importance = 10
                 /\ b.importance = 2
                 /\ NotListedByOthers(tasks, a.title)
                 /\ NotListedByOthers(tasks, b.title))
                => (a.priority_score > b.priority_score /\ i < j)

\* the least favourable pair: the importance-2 task comes first in the
\* input, is overdue, takes 0.001 hours and lists itself; the importance-10
\* task is due in 400 days and takes 1000 hours
C16_Witness ==
    /\ result.kind = "scored"
    /\ scorer.strategy = "high_impact"
    /\ tasks[1] = Task(1, 1, Today - 5, 2, 1, <<1>>)
    /\ tasks[2] = Task(2, 2, Today + 400, 10, 1000000, <<>>)
    /\ result.scored[1].importance = 10
    /\ result.scored[1].priority_score > result.scored[2].priority_score

----------------------------------------------------------------------------
(* The request entry points: analyze_tasks and suggest_tasks *)

\* TaskInputSerializer.is_valid(): the field bounds and the duplicate check
ValidTask(t) ==
    /\ t.importance >= 1 /\ t.importance <= 10
    /\ t.estimated_hours >= 100 /\ t.estimated_hours <= 1000000
    /\ \A i, j \in 1..Len(t.dependencies) :
          i # j => t.dependencies[i] # t.dependencies[j]

\* TaskOutputSerializer: the fields of a scored task that are sent back
OutputTask(t) ==
    [f \in TaskFields \cup {"priority_score", "priority_level", "explanation"} |-> t[f]]

\* what a handler leaves behind: its response, the scorer operations it
\* invoked, the scorer it built and the cycle detection it ran
Outcome(response, invoked, s, d) ==
    [response |-> response, calls |-> invoked, scorer |-> s, dfs |-> d]

\* lines 59-91 and 136-166: the try block both handlers share; endpoint is
\* "analyze" or "suggest".  (A RecursionError or a TypeError of a non-integer
\* limit, answered with status 500, is outside the inputs drawn here.)
ScoreRequest(endpoint, ts, strategy, limit) ==
    LET s == NewScorer(strategy)
        d == detect_circular_dependencies(ts)
    IN  IF s.strategy = "none"
        THEN Outcome([status |-> 400, error |-> s.error, choices |-> s.choices],
                     <<"TaskScorer">>, NoScorer, DfsIdle)
        ELSE IF d.err
        THEN Outcome([status |-> 400, error |-> "ValueError"],
                     <<"TaskScorer", "detect_circular_dependencies">>, s, d)
        ELSE IF d.cycles # <<>>
        THEN Outcome([status |-> 400, error |-> "Circular dependencies detected",
                      cycles |-> d.cycles],
                     <<"TaskScorer", "detect_circular_dependencies">>, s, d)
        ELSE IF endpoint = "analyze"
        THEN Outcome([status |-> 200, error |-> "",
                      tasks |-> [i \in 1..Len(ts) |-> OutputTask(score_tasks(s, ts)[i])],
                      strategy |-> strategy, total_tasks |-> Len(ts)],
                     <<"TaskScorer", "detect_circular_dependencies", "score_tasks">>, s, d)
        ELSE Outcome([status |-> 200, error |-> "",
                      suggestions |-> get_top_suggestions(s, ts, limit),
                      strategy |-> strategy],
                     <<"TaskScorer", "detect_circular_dependencies", "get_top_suggestions">>, s, d)

\* lines 27-57 and 114-134, then the try block
HandleRequest(endpoint, ts, strategy, limit) ==
    IF ts = <<>>
    THEN Outcome([status |-> 400, error |-> "No tasks provided"], <<>>, NoScorer, DfsIdle)
    ELSE IF \E i \in 1..Len(ts) : ~ValidTask(ts[i])
    THEN Outcome([status |-> 400, error |-> "Invalid task data",
                  details |-> IF endpoint = "analyze"
                              THEN {i - 1 : i \in {j \in 1..Len(ts) : ~ValidTask(ts[j])}}
                              ELSE {(CHOOSE i \in 1..Len(ts) :
                                        /\ ~ValidTask(ts[i])
                                        /\ \A j \in 1..(i - 1) : ValidTask(ts[j])) - 1}],
                 <<>>, NoScorer, DfsIdle)
    ELSE ScoreRequest(endpoint, ts, strategy, limit)

\* what varies in a task of a request: an id of 1..MaxRequest or none, an
\* importance that passes validation (5) or fails it (11), at most one
\* dependency
RequestChoices == ({NoId} \cup 1..MaxRequest) \X {5, 11} \X ShortDepLists(1..MaxRequest)

RequestTask(p, c) == Task(c[1], p, Today + 5, c[2], 2000, c[3])

Requests ==
    UNION {{[p \in 1..n |-> RequestTask(p, c[p])] : c \in [1..n -> RequestChoices]} :
              n \in 0..MaxRequest}

Init ==
    /\ tasks \in Requests
    /\ arg = <<>>
    /\ scorer = NoScorer
    /\ dfs = DfsIdle
    /\ result = NoResult
    /\ pc = "idle"
    /\ calls = <<>>
    /\ heap = <<>>

\* POST analyze: request.data = {tasks, strategy}
analyze_tasks ==
    /\ pc = "idle"
    /\ \E strategy \in StrategyNames \cup {"bogus"} :
          LET o == HandleRequest("analyze", tasks, strategy, 0)
          IN  /\ result' = [kind |-> "response", endpoint |-> "analyze",
                            strategy |-> strategy, response |-> o.response]
              /\ calls' = o.calls
              /\ scorer' = o.scorer
              /\ dfs' = o.dfs
    /\ pc' = "responded"
    /\ UNCHANGED <<heap, tasks, arg>>

\* POST suggest: request.data = {tasks, strategy, limit}
suggest_tasks ==
    /\ pc = "idle"
    /\ \E strategy \in StrategyNames \cup {"bogus"}, limit \in 0..MaxLimit :
          LET o == HandleRequest("suggest", tasks, strategy, limit)
          IN  /\ result' = [kind |-> "response", endpoint |-> "suggest",
                            strategy |-> strategy, limit |-> limit,
                            response |-> o.response]
              /\ calls' = o.calls
              /\ scorer' = o.scorer
              /\ dfs' = o.dfs
    /\ pc' = "responded"
    /\ UNCHANGED <<heap, tasks, arg>>

Next == analyze_tasks \/ suggest_tasks

Spec == Init /\ [][Next]_vars

\* the request passed validation: a non-empty list of valid tasks
Validated == tasks # <<>> /\ \A i \in 1..Len(tasks) : ValidTask(tasks[i])

\* a scoring operation was invoked for the request
ScoringInvoked == "score_tasks" \in Range(calls) \/ "get_top_suggestions" \in Range(calls)

\* C1: in both entry points, a request whose validated tasks contain a
\* dependency cycle (each task's declared dependencies, restricted to the
\* ids of the request, self-dependency included) is answered with the
\* 'Circular dependencies detected' error carrying the cycles, and no
\* scoring operation is invoked for it; scoring is reached only after
\* detect_circular_dependencies returned an empty list.  (Stated for the
\* requests that name a built-in strategy: any other is answered with the
\* strategy error before the cycle check is reached.)
C1_CyclesRefused ==
    (pc = "responded" /\ Validated /\ scorer.strategy \in StrategyNames) =>
        /\ Cyclic(tasks) =>
              /\ result.response.error = "Circular dependencies detected"
              /\ result.response.cycles # <<>>
              /\ ~ScoringInvoked
        /\ ScoringInvoked =>
              /\ Len(calls) = 3
              /\ calls[2] = "detect_circular_dependencies"
              /\ dfs.state = "returned"
              /\ dfs.cycles = <<>>

\* C12: a request that names a strategy outside smart_balance, fastest_wins,
\* high_impact, deadline_driven is answered with an error and neither cycle
\* detection nor scoring is performed for it; when its tasks passed
\* validation the constructor was reached, and its error enumerates the four
\* valid names and leaves no scorer.  A request that passed validation and
\* names one of the four always gets its scorer, with that strategy's
\* weights.
C12_InvalidStrategy ==
    pc = "responded" =>
        LET names == {"smart_balance", "fastest_wins", "high_impact", "deadline_driven"}
        IN  /\ result.strategy \notin names =>
                  /\ result.response.status = 400
                  /\ result.response.error # ""
                  /\ "detect_circular_dependencies" \notin Range(calls)
                  /\ ~ScoringInvoked
                  /\ dfs = DfsIdle
                  /\ scorer = NoScorer
                  /\ Validated =>
                        /\ calls = <<"TaskScorer">>
                        /\ result.response.error = "Invalid strategy"
                        /\ result.response.choices = names
            /\ (result.strategy \in names /\ Validated) =>
                  /\ calls # <<>> /\ calls[1] = "TaskScorer"
                  /\ scorer.strategy = result.strategy
                  /\ scorer.weights = STRATEGIES[result.strategy]
                  /\ result.response.error # "Invalid strategy"
                  /\ dfs.state = "returned"

\* a valid request of two tasks that names an unknown strategy, refused by
\* the constructor
C12_Witness ==
    /\ pc = "responded"
    /\ Validated
    /\ Len(tasks) = 2
    /\ result.strategy = "bogus"
    /\ result.response.error = "Invalid strategy"
    /\ calls = <<"TaskScorer">>

----------------------------------------------------------------------------
(* Objects.  Python passes lists and dicts by reference: the caller's task  *)
(* list is a list object of dict objects, each holding its dependencies     *)
(* list object.  heap[k] is the object with identity k:                     *)
(*   [type |-> "list",   items  |-> references to objects]                  *)
(*   [type |-> "values", items  |-> integers, or lists built in place]      *)
(*   [type |-> "dict",   fields |-> the entries holding immutable values,   *)
(*                       refs   |-> the entries holding references]         *)

Ref(k) == [ref |-> k]

\* the objects of a caller's task list: the list, then one dict per task,
\* then one dependencies list per task
InputHeap(ts) ==
    LET n == Len(ts)
    IN  <<[type |-> "list", items |-> [p \in 1..n |-> Ref(1 + p)]]>>
        \o [p \in 1..n |->
               [type   |-> "dict",
                fields |-> [f \in {"task_id", "title", "due_date", "importance",
                                   "estimated_hours"} |-> ts[p][f]],
                refs   |-> [f \in {"dependencies"} |-> Ref(1 + n + p)]]]
        \o [p \in 1..n |-> [type |-> "values", items |-> ts[p].dependencies]]

\* the number of objects of a caller's task list
InputSize(ts) == 2 * Len(ts) + 1

\* the task dict r as the scorer reads it: task[f], task.get('dependencies', [])
TaskValue(h, r) ==
    h[r.ref].fields @@ [dependencies |-> h[h[r.ref].refs.dependencies.ref].items]

\* the task list r as the scorer reads it
TasksValue(h, r) == [i \in 1..Len(h[r.ref].items) |-> TaskValue(h, h[r.ref].items[i])]

\* calculate_priority(task, all_tasks): the returned dict (with its
\* component_scores dict and explanation built in place) is a new object
CalculatePriorityOn(h, s, task, all_tasks) ==
    [heap |-> Append(h, [type   |-> "dict",
                         fields |-> calculate_priority(s, TaskValue(h, task),
                                                       TasksValue(h, all_tasks)),
                         refs   |-> <<>>]),
     ret  |-> Ref(Len(h) + 1)]

\* score_tasks(tasks): scored_tasks is a new list; {**task, **score_data} is
\* a new dict that holds the entries of task, references as they are;
\* append and sort act on scored_tasks
ScoreTasksOn(h, s, ts_ref) ==
    LET ts     == TasksValue(h, ts_ref)
        n      == Len(ts)
        K      == Len(h)
        task(p) == h[h[ts_ref.ref].items[p].ref]
        scored_task(p) ==
            [type   |-> "dict",
             fields |-> calculate_priority(s, ts[p], ts) @@ task(p).fields,
             refs   |-> task(p).refs]
        h1     == h \o <<[type |-> "list", items |-> <<>>]>> \o [p \in 1..n |-> scored_task(p)]
        \* scored_tasks.append(scored_task), for every task in order
        h2     == [h1 EXCEPT ![K + 1].items = [p \in 1..n |-> Ref(K + 1 + p)]]
        \* scored_tasks.sort(key=priority_score, reverse=True)
        keyed  == [p \in 1..n |-> [priority_score |-> h2[K + 1 + p].fields.priority_score,
                                   ref            |-> h2[K + 1].items[p].ref]]
        sorted == SortByScore(keyed, n)
        h3     == [h2 EXCEPT ![K + 1].items = [i \in 1..n |-> Ref(sorted[i].ref)]]
    IN  [heap |-> h3, ret |-> Ref(K + 1)]

\* suggestions.append({...}) for the scored task whose entries are t: a new
\* dict of immutable values and a new action_items list
SuggestionOf(t, rank) ==
    [type   |-> "dict",
     fields |-> [task_id         |-> t.task_id,
                 title           |-> t.title,
                 due_date        |-> t.due_date,
                 estimated_hours |-> t.estimated_hours,
                 importance      |-> t.importance,
                 priority_score  |-> t.priority_score,
                 reason          |-> t.explanation,
                 action_items    |-> GenerateActionItems(t, rank)],
     refs   |-> <<>>]

\* the slice scored_tasks[:limit] and the suggestions list are new lists on
\* top of what score_tasks left in h1, where scored is its returned list
SuggestionsOn(h1, scored, limit) ==
    LET K         == Len(h1)
        top_tasks == SlicePrefix(h1[scored.ref].items, limit)
        n         == Len(top_tasks)
    IN  [heap |-> h1 \o <<[type |-> "list", items |-> top_tasks],
                           [type |-> "list", items |-> [i \in 1..n |-> Ref(K + 2 + i)]]>>
                     \o [i \in 1..n |-> SuggestionOf(h1[top_tasks[i].ref].fields, i)],
         ret  |-> Ref(K + 2)]

\* get_top_suggestions(tasks, limit)
GetTopSuggestionsOn(h, s, ts_ref, limit) ==
    LET c == ScoreTasksOn(h, s, ts_ref)
    IN  SuggestionsOn(c.heap, c.ret, limit)

\* detect_circular_dependencies(tasks): graph is a new dict whose values are
\* the tasks' own dependencies lists; visited, rec_stack, every path and
\* cycles are new objects, the only ones the search writes to
DetectOn(h, ts_ref) ==
    LET ts   == TasksValue(h, ts_ref)
        n    == Len(ts)
        K    == Len(h)
        keys == GraphKeys(ts, n)
        last(id) == CHOOSE p \in 1..n :
                        ts[p].task_id = id /\ \A q \in (p + 1)..n : ts[q].task_id # id
        graph == [type   |-> "dict",
                  fields |-> <<>>,
                  refs   |-> [id \in Range(keys) |->
                                 h[h[ts_ref.ref].items[last(id)].ref].refs.dependencies]]
    IN  [heap |-> h \o <<graph, [type  |-> "values",
                                 items |-> detect_circular_dependencies(ts).cycles]>>,
         ret  |-> Ref(K + 2)]

\* the references an object holds
RefsOf(o) ==
    IF o.type = "list" THEN Range(o.items)
    ELSE IF o.type = "dict" THEN {o.refs[k] : k \in DOMAIN o.refs}
    ELSE {}

RECURSIVE Reach(_, _, _)
\* the identities reached from those of S in at most n steps
Reach(h, S, n) ==
    IF n = 0 THEN S
    ELSE Reach(h, S \cup {r.ref : r \in UNION {RefsOf(h[k]) : k \in S}}, n - 1)

----------------------------------------------------------------------------
(* SpecCalls: a scorer and any sequence of its operations on one task list *)

\* the task lists a caller passes: the valid non-empty lists of a request
CallInputs ==
    LET valid == {c \in RequestChoices : ValidTask(RequestTask(1, c))}
    IN  UNION {{[p \in 1..n |-> RequestTask(p, c[p])] : c \in [1..n -> valid]} :
                  n \in 1..MaxRequest}

InitCalls ==
    /\ tasks \in CallInputs
    /\ arg = <<>>
    /\ scorer = NoScorer
    /\ dfs = DfsIdle
    /\ result = NoResult
    /\ pc = "idle"
    /\ calls = <<>>
    /\ heap = InputHeap(tasks)

\* scorer.calculate_priority(tasks[i], tasks)
CalculatePriorityCall ==
    /\ pc = "ready"
    /\ \E i \in 1..Len(heap[1].items) :
          LET c == CalculatePriorityOn(heap, scorer, heap[1].items[i], Ref(1))
          IN  /\ heap' = c.heap
              /\ result' = [kind |-> "priority", ref |-> c.ret]
    /\ pc' = "done"
    /\ UNCHANGED <<tasks, arg, scorer, dfs, calls>>

\* scorer.score_tasks(tasks)
ScoreTasksCall ==
    /\ pc = "ready"
    /\ LET c == ScoreTasksOn(heap, scorer, Ref(1))
       IN  /\ heap' = c.heap
           /\ result' = [kind |-> "scored", ref |-> c.ret]
    /\ pc' = "done"
    /\ UNCHANGED <<tasks, arg, scorer, dfs, calls>>

\* scorer.get_top_suggestions(tasks, limit)
GetTopSuggestionsCall ==
    /\ pc = "ready"
    /\ \E limit \in 0..MaxLimit :
          LET c == GetTopSuggestionsOn(heap, scorer, Ref(1), limit)
          IN  /\ heap' = c.heap
              /\ result' = [kind |-> "suggestions", ref |-> c.ret]
    /\ pc' = "done"
    /\ UNCHANGED <<tasks, arg, scorer, dfs, calls>>

\* DetectCall with a slip: the call re-initialises the scorer to the default
\* strategy
DetectCall_ResetsStrategy ==
    /\ pc = "ready"
    /\ LET c == DetectOn(heap, Ref(1))
       IN  /\ heap' = c.heap
           /\ result' = [kind |-> "cycles", ref |-> c.ret]
    /\ pc' = "done"
    /\ scorer' = NewScorer("smart_balance")
    /\ UNCHANGED <<tasks, arg, dfs, calls>>

\* scorer.detect_circular_dependencies(tasks)
DetectCall ==
    /\ pc = "ready"
    /\ LET c == DetectOn(heap, Ref(1))
       IN  /\ heap' = c.heap
           /\ result' = [kind |-> "cycles", ref |-> c.ret]
    /\ pc' = "done"
    /\ UNCHANGED <<tasks, arg, scorer, dfs, calls>>

\* the caller drops the returned value: the objects of the call are gone,
\* the caller's own remain as the call left them
DropResult ==
    /\ pc = "done"
    /\ heap # <<>>
    /\ heap' = SubSeq(heap, 1, InputSize(tasks))
    /\ result' = NoResult
    /\ pc' = "ready"
    /\ UNCHANGED <<tasks, arg, scorer, dfs, calls>>

NextCalls ==
    \/ Construct
    \/ CalculatePriorityCall
    \/ ScoreTasksCall
    \/ GetTopSuggestionsCall
    \/ DetectCall
    \/ DropResult

SpecCalls == InitCalls /\ [][NextCalls]_vars

\* the caller's list, its task dicts and their dependencies lists are the
\* objects they were, with the contents they had
InputUnchanged == SubSeq(heap, 1, InputSize(tasks)) = InputHeap(tasks)

\* nothing the returned value holds is an object of the caller
ResultFresh ==
    result.kind # "none" =>
        Reach(heap, {result.ref.ref}, Len(heap)) \cap 1..InputSize(tasks) = {}

\* C14: no operation of the scorer modifies its input: after any sequence of
\* calls the caller's task list has the same length and order and every task
\* record has the same fields and the same dependencies list as before; and
\* every result is a freshly built value, holding no object of the caller.
C14_InputUntouched ==
    heap # <<>> => (InputUnchanged /\ ResultFresh)

\* C15: in every state of a constructed scorer, after construction and after
\* any sequence of scoring or cycle-detection calls, the weights are the
\* built-in vector of its strategy (smart_balance .35 .35 .15 .15,
\* fastest_wins .20 .20 .50 .10, high_impact .15 .60 .05 .20, deadline_driven
\* .60 .20 .05 .15: each non-negative, the four summing to 1), and no call
\* changes the weights or the strategy name.
C15_WeightsFixed ==
    /\ [](scorer.strategy # "none" =>
            LET w == scorer.weights
            IN  /\ scorer.strategy \in {"smart_balance", "fastest_wins",
                                        "high_impact", "deadline_driven"}
                /\ scorer.strategy = "smart_balance" =>
                      <<w.urgency, w.importance, w.effort, w.dependencies>> = <<35, 35, 15, 15>>
                /\ scorer.strategy = "fastest_wins" =>
                      <<w.urgency, w.importance, w.effort, w.dependencies>> = <<20, 20, 50, 10>>
                /\ scorer.strategy = "high_impact" =>
                      <<w.urgency, w.importance, w.effort, w.dependencies>> = <<15, 60, 5, 20>>
                /\ scorer.strategy = "deadline_driven" =>
                      <<w.urgency, w.importance, w.effort, w.dependencies>> = <<60, 20, 5, 15>>
                /\ DOMAIN w = {"urgency", "importance", "effort", "dependencies"}
                /\ \A k \in DOMAIN w : w[k] >= 0
                /\ w.urgency + w.importance + w.effort + w.dependencies = 100)
    /\ [][scorer.strategy # "none" => scorer' = scorer]_vars

\* a high_impact scorer that has just returned from a cycle detection
C15_Witness ==
    /\ pc = "done"
    /\ result.kind = "cycles"
    /\ heap # <<>>
    /\ scorer.strategy = "high_impact"
    /\ scorer.weights.importance = 60

====
